---- MODULE Spec2Model ----
(***************************************************************************)
(* Terrain engine and terrain curriculum of burl (src/burl/sim/terrain.py),*)
(* with the environment's step and reset (src/burl/sim/env.py) and the     *)
(* configuration object (src/burl/utils/config.py), and the container of  *)
(* worker processes (src/burl/sim/multi_env.py).                           *)
(*                                                                         *)
(* Numbers.  The program computes with Python floats; the model computes   *)
(* with exact integers in fixed units:                                     *)
(*   - difficulty, difficulty_step, max_difficulty: hundredths (0.05 = 5); *)
(*   - distance, distance_threshold: hundredths (2.0 = 200);               *)
(*   - world coordinates x, y: half metres for the fixture of resolution   *)
(*     1 (resolution = 2 units), so that points between vertices exist;    *)
(*   - elevations: units in which every stored elevation is a multiple of  *)
(*     the resolution, so that the interpolation's division is exact.      *)
(* Rounding error of float addition is therefore not part of these         *)
(* specifications; SpecDouble keeps the curriculum's difficulty as the     *)
(* IEEE 754 double, with the rounding of += and -=.                        *)
(***************************************************************************)
EXTENDS Integers, Sequences, FiniteSets, TLC

VARIABLES
    cfg,               \* g_cfg: the TerrainCurriculumParam fields read by the curriculum
    counter,           \* TerrainCurriculum.counter
    difficulty,        \* TerrainCurriculum.difficulty
    difficulty_level,  \* TerrainCurriculum.difficulty_level
    combo,             \* TerrainCurriculum.combo
    miss,              \* TerrainCurriculum.miss
    call,              \* arguments of the last register call (NoCall before the first)
    ret,               \* value returned by the last register call (FALSE before the first)
    hist,              \* the register calls made so far (kept by SpecE2E); in
                       \* SpecDouble the levels before the calls of the run of
                       \* non-timeout episodes in progress
    terrain,           \* the terrain object queried; in the manager and environment
                       \* specifications the manager's reference self.terrain, an
                       \* index of objects (None where there is no terrain)
    query,             \* the last call made on the terrain, the generator or g_cfg:
                       \* its operation and arguments (NoQuery before it)
    result,            \* what that call returned or raised
    objects,           \* the terrain objects constructed so far, by object identity
    building,          \* the terrain object whose __init__ is running (None outside it)
    bullet,            \* the physics client: the collision shapes and bodies it has created
    rng,               \* state of numpy's global random generator
    handle,            \* terrain id a caller has read and kept (NoHandle before it reads one)
    env                \* the environment's fields (None where there is no environment);
                       \* in SpecWorkers the container of environments the runner holds

vars == <<cfg, counter, difficulty, difficulty_level, combo, miss, call, ret, hist,
          terrain, query, result, objects, building, bullet, rng, handle, env>>

curriculumVars == <<cfg, counter, difficulty, difficulty_level, combo, miss, call, ret, hist>>
terrainVars == <<terrain, query, result>>
managerVars == <<objects, building, bullet, rng, handle>>

\* Python's None, as the value of a field that holds no object yet.
None == [kind |-> "None"]
\* The query recorded before the first terrain query.
NoQuery == [op |-> "None"]
\* The arguments recorded before the first register call.
NoCall == [episode_len |-> 0, distance |-> 0]
\* Terrain.__init__'s terrain_id = -1: no body of the physics client.
NoHandle == -1

(***************************************************************************)
(* Bounds of the model.                                                    *)
(***************************************************************************)
MaxCalls == 8          \* register calls per run of SpecCurriculum
MaxE2ECalls == 5       \* register calls per run of SpecE2E

(***************************************************************************)
(* Configuration (src/burl/utils/config.py).                               *)
(***************************************************************************)
max_sim_iterations == 8000

\* g_cfg as the curriculum reads it.  CfgE2E is the configuration of the
\* end-to-end curriculum scenario; the others vary the thresholds and take
\* steps that divide max_difficulty (15, 30) and one that does not (20).
CfgE2E ==
    [combo_threshold |-> 3, miss_threshold |-> 2, difficulty_step |-> 5,
     max_difficulty |-> 30, distance_threshold |-> <<200, 400>>]

Configs ==
    {CfgE2E} \cup
    [combo_threshold : {1, 2}, miss_threshold : {1, 2}, difficulty_step : {15, 20, 30},
     max_difficulty : {30}, distance_threshold : {<<200, 400>>}]

\* Inputs of register: episode lengths around the timeout, distances around
\* and on the two distance thresholds.
EpisodeLens == {1, max_sim_iterations, max_sim_iterations + 1}
Distances == {150, 200, 300, 400, 500}

(***************************************************************************)
(* TerrainCurriculum                                                       *)
(***************************************************************************)
\* The part of the object that decreaseLevel / increaseLevel change.
Level(d, l) == [difficulty |-> d, difficulty_level |-> l]

\* Variant: the floor test is missing.
decreaseLevel_noFloor(s) ==
    Level(s.difficulty - cfg.difficulty_step, s.difficulty_level - 1)

\* Variant: the level is lowered and the scalar difficulty is left behind.
decreaseLevel_levelOnly(s) ==
    IF s.difficulty_level > 0
    THEN Level(s.difficulty, s.difficulty_level - 1)
    ELSE s

decreaseLevel(s) ==
    IF s.difficulty_level > 0
    THEN Level(s.difficulty - cfg.difficulty_step, s.difficulty_level - 1)
    ELSE s

increaseLevel(s) ==
    IF s.difficulty < cfg.max_difficulty
    THEN Level(s.difficulty + cfg.difficulty_step, s.difficulty_level + 1)
    ELSE s

\* Variant: a timeout does not reset the miss streak.
updateStreaks_keepMiss(c, m, episode_len) ==
    IF episode_len = max_sim_iterations
    THEN [combo |-> c + 1, miss |-> m]
    ELSE [combo |-> 0, miss |-> m + 1]

\* Variant: a streak that has reached its threshold starts again at 1.
updateStreaks_restart(c, m, episode_len) ==
    IF episode_len = max_sim_iterations
    THEN [combo |-> (IF c >= cfg.combo_threshold THEN 1 ELSE c + 1), miss |-> 0]
    ELSE [combo |-> 0, miss |-> (IF m >= cfg.miss_threshold THEN 1 ELSE m + 1)]

\* Variant: an episode that is not a timeout leaves the combo streak.
updateStreaks_keepCombo(c, m, episode_len) ==
    IF episode_len = max_sim_iterations
    THEN [combo |-> c + 1, miss |-> 0]
    ELSE [combo |-> c, miss |-> m + 1]

\* register, lines 253-258: the streaks after the episode outcome.
updateStreaks(c, m, episode_len) ==
    IF episode_len = max_sim_iterations
    THEN [combo |-> c + 1, miss |-> 0]
    ELSE [combo |-> 0, miss |-> m + 1]

\* Variant: True is returned only when a level change was asked for.
registerLevel_falseOnHold(s, streaks, distance) ==
    IF streaks.combo < cfg.combo_threshold /\ streaks.miss < cfg.miss_threshold
    THEN [level |-> s, ret |-> FALSE]
    ELSE IF streaks.miss >= cfg.miss_threshold
    THEN [level |-> decreaseLevel(s), ret |-> TRUE]
    ELSE LET lower == cfg.distance_threshold[1]
             upper == cfg.distance_threshold[2]
         IN  IF distance > upper THEN [level |-> increaseLevel(s), ret |-> TRUE]
             ELSE IF distance < lower THEN [level |-> decreaseLevel(s), ret |-> TRUE]
             ELSE [level |-> s, ret |-> FALSE]

\* Variant: the distance comparisons include the thresholds themselves.
registerLevel_inclusive(s, streaks, distance) ==
    IF streaks.combo < cfg.combo_threshold /\ streaks.miss < cfg.miss_threshold
    THEN [level |-> s, ret |-> FALSE]
    ELSE IF streaks.miss >= cfg.miss_threshold
    THEN [level |-> decreaseLevel(s), ret |-> TRUE]
    ELSE LET lower == cfg.distance_threshold[1]
             upper == cfg.distance_threshold[2]
         IN  IF distance >= upper THEN [level |-> increaseLevel(s), ret |-> TRUE]
             ELSE IF distance <= lower THEN [level |-> decreaseLevel(s), ret |-> TRUE]
             ELSE [level |-> s, ret |-> TRUE]

\* Variant: a timeout with distance > upper raises the level whatever the
\* combo streak.
registerLevel_ungated(s, streaks, distance) ==
    IF streaks.combo > 0 /\ distance > cfg.distance_threshold[2]
    THEN [level |-> increaseLevel(s), ret |-> TRUE]
    ELSE IF streaks.combo < cfg.combo_threshold /\ streaks.miss < cfg.miss_threshold
    THEN [level |-> s, ret |-> FALSE]
    ELSE IF streaks.miss >= cfg.miss_threshold
    THEN [level |-> decreaseLevel(s), ret |-> TRUE]
    ELSE IF distance < cfg.distance_threshold[1]
    THEN [level |-> decreaseLevel(s), ret |-> TRUE]
    ELSE [level |-> s, ret |-> TRUE]

\* register, lines 260-272: the level after the call and the value returned.
registerLevel(s, streaks, distance) ==
    IF streaks.combo < cfg.combo_threshold /\ streaks.miss < cfg.miss_threshold
    THEN [level |-> s, ret |-> FALSE]
    ELSE IF streaks.miss >= cfg.miss_threshold
    THEN [level |-> decreaseLevel(s), ret |-> TRUE]
    ELSE IF streaks.combo >= cfg.combo_threshold
    THEN LET lower == cfg.distance_threshold[1]
             upper == cfg.distance_threshold[2]
         IN  IF distance > upper THEN [level |-> increaseLevel(s), ret |-> TRUE]
             ELSE IF distance < lower THEN [level |-> decreaseLevel(s), ret |-> TRUE]
             ELSE [level |-> s, ret |-> TRUE]
    ELSE [level |-> s, ret |-> TRUE]

\* TerrainCurriculum.register(episode_len, distance), the whole method.
registerCall(episode_len, distance) ==
    LET streaks == updateStreaks(combo, miss, episode_len)
        out == registerLevel(Level(difficulty, difficulty_level), streaks, distance)
    IN  /\ counter' = counter + 1
        /\ combo' = streaks.combo
        /\ miss' = streaks.miss
        /\ difficulty' = out.level.difficulty
        /\ difficulty_level' = out.level.difficulty_level
        /\ ret' = out.ret
        /\ call' = [episode_len |-> episode_len, distance |-> distance]
        /\ UNCHANGED cfg

\* TerrainCurriculum.__init__: the fields of a fresh controller.
curriculumInit ==
    /\ counter = 0
    /\ difficulty = 0
    /\ difficulty_level = 0
    /\ combo = 0
    /\ miss = 0
    /\ call = NoCall
    /\ ret = FALSE
    /\ hist = <<>>

noTerrain ==
    /\ terrain = None
    /\ query = NoQuery
    /\ result = None

\* The fields of the specifications that construct no terrain through a
\* manager and run no environment.
noManager ==
    /\ objects = <<>>
    /\ building = None
    /\ bullet = [shapes |-> 0, bodies |-> 0]
    /\ rng = 0
    /\ handle = NoHandle

noEnv == env = None

register ==
    /\ counter < MaxCalls
    /\ \E episode_len \in EpisodeLens, distance \in Distances :
           registerCall(episode_len, distance)
    /\ UNCHANGED hist
    /\ UNCHANGED terrainVars
    /\ UNCHANGED <<managerVars, env>>

InitCurriculum ==
    /\ cfg \in Configs
    /\ curriculumInit
    /\ noTerrain
    /\ noManager
    /\ noEnv

NextCurriculum == register

SpecCurriculum == InitCurriculum /\ [][NextCurriculum]_vars

(***************************************************************************)
(* The end-to-end curriculum scenario: a fresh controller under CfgE2E,    *)
(* with every call recorded in hist.                                       *)
(***************************************************************************)
E2EEpisodeLens == {1, max_sim_iterations}
E2EDistances == {150, 300, 500}

registerE2E ==
    /\ Len(hist) < MaxE2ECalls
    /\ \E episode_len \in E2EEpisodeLens, distance \in E2EDistances :
           /\ registerCall(episode_len, distance)
           /\ hist' = Append(hist, [episode_len |-> episode_len, distance |-> distance])
    /\ UNCHANGED terrainVars
    /\ UNCHANGED <<managerVars, env>>

InitE2E ==
    /\ cfg = CfgE2E
    /\ curriculumInit
    /\ noTerrain
    /\ noManager
    /\ noEnv

NextE2E == registerE2E

SpecE2E == InitE2E /\ [][NextE2E]_vars

(***************************************************************************)
(* HeightFieldTerrain                                                      *)
(*                                                                         *)
(* A terrain object is a record of the fields __init__ sets.  Coordinates, *)
(* resolutions and elevations are integers in one length unit; the         *)
(* resolution is an even number of units, so that x_size / 2 is a whole    *)
(* number, and every elevation is a multiple of the resolution.            *)
(***************************************************************************)
\* HeightFieldTerrain.__init__ with a scalar resolution: height_field[iy][ix]
\* is numpy's height_field[iy, ix].
HeightFieldTerrain(height_field, y_dim, x_dim, resolution, offset) ==
    [height_field |-> height_field,
     offset |-> offset,
     y_dim |-> y_dim,
     x_dim |-> x_dim,
     x_size |-> (x_dim - 1) * resolution,
     y_size |-> (y_dim - 1) * resolution,
     x_rsl |-> resolution,
     y_rsl |-> resolution]

\* int((n + 1e-10) / d) for whole n and d > 0: Python's int() truncates
\* towards zero, and the 1e-10 lifts an exact negative multiple of d just
\* above the quotient it would otherwise give.
intOfQuotient(n, d) ==
    IF n >= 0 THEN n \div d ELSE -((-n - 1) \div d)

xCoord2Idx(t, x) == intOfQuotient(x + (t.x_size \div 2) - t.offset[1], t.x_rsl)

yCoord2Idx(t, y) == intOfQuotient(y + (t.y_size \div 2) - t.offset[2], t.y_rsl)

\* Variant: the index is scaled and shifted by the offset, the grid's centring
\* (- x_size / 2) is missing.
xIdx2Coord_noCentre(t, x_idx) == x_idx * t.x_rsl + t.offset[1]

xIdx2Coord(t, x_idx) == x_idx * t.x_rsl - (t.x_size \div 2) + t.offset[1]

yIdx2Coord(t, y_idx) == y_idx * t.y_rsl - (t.y_size \div 2) + t.offset[2]

\* numpy's index rule on an axis of length dim: -dim .. dim-1 are valid, a
\* negative index counts from the end, any other index raises IndexError.
indexValid(i, dim) == -dim <= i /\ i < dim
indexOf(i, dim) == IF i < 0 THEN i + dim ELSE i

\* height_field[y_idx, x_idx]
elevationValid(t, y_idx, x_idx) == indexValid(y_idx, t.y_dim) /\ indexValid(x_idx, t.x_dim)
elevationAt(t, y_idx, x_idx) ==
    t.height_field[indexOf(y_idx, t.y_dim)][indexOf(x_idx, t.x_dim)]

IndexError == [kind |-> "raise", error |-> "IndexError"]
ValueError == [kind |-> "raise", error |-> "ValueError"]
Return(v) == [kind |-> "return", value |-> v]

\* getNearestVertices: the three vertices of the selected triangle, or the
\* IndexError of the first elevation read that is out of range.
getNearestVertices(t, x, y) ==
    LET x_idx == xCoord2Idx(t, x)
        y_idx == yCoord2Idx(t, y)
        x_rnd == xIdx2Coord(t, x_idx)
        y_rnd == yIdx2Coord(t, y_idx)
        lowerLeft == (x - x_rnd) * t.y_rsl + (y - y_rnd) * t.x_rsl < t.x_rsl * t.y_rsl
        v1Valid == IF lowerLeft THEN elevationValid(t, y_idx, x_idx)
                   ELSE elevationValid(t, y_idx + 1, x_idx + 1)
        v1 == IF lowerLeft THEN <<x_rnd, y_rnd, elevationAt(t, y_idx, x_idx)>>
              ELSE <<x_rnd + t.x_rsl, y_rnd + t.y_rsl, elevationAt(t, y_idx + 1, x_idx + 1)>>
        v2 == <<x_rnd, y_rnd + t.y_rsl, elevationAt(t, y_idx + 1, x_idx)>>
        v3 == <<x_rnd + t.x_rsl, y_rnd, elevationAt(t, y_idx, x_idx + 1)>>
    IN  IF ~v1Valid \/ ~elevationValid(t, y_idx + 1, x_idx) \/ ~elevationValid(t, y_idx, x_idx + 1)
        THEN IndexError
        ELSE Return(<<v1, v2, v3>>)

\* a / b for whole a and b # 0 with b dividing a.
exactQuotient(a, b) == IF b < 0 THEN (-a) \div (-b) ELSE a \div b

\* getHeight: c1 * z1 + c2 * z2 with c1 = n1 / div and c2 = n2 / div is
\* (n1 * z1 + n2 * z2) / div, a whole number for the elevations of the model.
getHeight(t, x, y) ==
    LET nv == getNearestVertices(t, x, y)
    IN  IF nv = IndexError THEN 0
        ELSE LET v1 == nv.value[1]
                 v2 == nv.value[2]
                 v3 == nv.value[3]
                 x1 == v2[1] - v1[1]
                 y1 == v2[2] - v1[2]
                 z1 == v2[3] - v1[3]
                 x2 == v3[1] - v1[1]
                 y2 == v3[2] - v1[2]
                 z2 == v3[3] - v1[3]
                 x3 == x - v1[1]
                 y3 == y - v1[2]
                 div == x1 * y2 - x2 * y1
                 n1 == x3 * y2 - x2 * y3
                 n2 == x1 * y3 - x3 * y1
             IN  IF x = v1[1] /\ y = v1[2]
                 THEN v1[3]
                 ELSE exactQuotient(n1 * z1 + n2 * z2, div) + v1[3] + t.offset[3]

RECURSIVE gcd(_, _)
gcd(a, b) == IF b = 0 THEN a ELSE gcd(b, a % b)
abs(a) == IF a < 0 THEN -a ELSE a

cross(a, b) ==
    <<a[2] * b[3] - a[3] * b[2], a[3] * b[1] - a[1] * b[3], a[1] * b[2] - a[2] * b[1]>>

\* unit(v) = v / |v|, kept exactly as the shortest whole vector dir along v
\* and norm2 = dir . dir: the vector it stands for is dir / sqrt(norm2).
unit(v) ==
    LET g == gcd(gcd(abs(v[1]), abs(v[2])), abs(v[3]))
        dir == <<exactQuotient(v[1], g), exactQuotient(v[2], g), exactQuotient(v[3], g)>>
    IN  [dir |-> dir, norm2 |-> dir[1] * dir[1] + dir[2] * dir[2] + dir[3] * dir[3]]

negated(n) == [dir |-> <<-n.dir[1], -n.dir[2], -n.dir[3]>>, norm2 |-> n.norm2]

\* np.array((0, 0, 1))
upVector == [dir |-> <<0, 0, 1>>, norm2 |-> 1]

minus(a, b) == <<a[1] - b[1], a[2] - b[2], a[3] - b[3]>>

\* getNormal that returns the normalised cross product as it is.
getNormal_noFlip(t, x, y) ==
    LET nv == getNearestVertices(t, x, y)
    IN  IF nv = IndexError THEN upVector
        ELSE unit(cross(minus(nv.value[1], nv.value[2]), minus(nv.value[1], nv.value[3])))

getNormal(t, x, y) ==
    LET nv == getNearestVertices(t, x, y)
    IN  IF nv = IndexError THEN upVector
        ELSE LET v1 == nv.value[1]
                 v2 == nv.value[2]
                 v3 == nv.value[3]
                 normal == unit(cross(minus(v1, v2), minus(v1, v3)))
             IN  IF normal.dir[3] > 0 THEN normal ELSE negated(normal)

\* The indices a Python slice start:stop selects on an axis of length dim.
sliceBound(i, dim) ==
    IF i < 0 THEN (IF i + dim < 0 THEN 0 ELSE i + dim)
    ELSE (IF i > dim THEN dim ELSE i)
sliceStart(start, stop, dim) == sliceBound(start, dim)
sliceLen(start, stop, dim) ==
    IF sliceBound(stop, dim) > sliceBound(start, dim)
    THEN sliceBound(stop, dim) - sliceBound(start, dim)
    ELSE 0

getMaxHeightInRange(t, x_range, y_range) ==
    LET x_lower == x_range[1]
        x_upper == x_range[2]
        y_lower == y_range[1]
        y_upper == y_range[2]
        x_lower_idx == xCoord2Idx(t, x_lower)
        x_upper_idx == xCoord2Idx(t, x_upper) + 1
        y_lower_idx == yCoord2Idx(t, y_lower)
        y_upper_idx == yCoord2Idx(t, y_upper) + 1
        x0 == sliceStart(x_lower_idx, x_upper_idx, t.x_dim)
        y0 == sliceStart(y_lower_idx, y_upper_idx, t.y_dim)
        x_size == sliceLen(x_lower_idx, x_upper_idx, t.x_dim)
        y_size == sliceLen(y_lower_idx, y_upper_idx, t.y_dim)
        \* height_field_part, flattened in row order as np.argmax reads it
        part(k) == t.height_field[y0 + (k \div x_size)][x0 + (k % x_size)]
        flat == 0 .. (x_size * y_size - 1)
        \* np.argmax: the first index of the largest element
        max_idx == CHOOSE k \in flat :
                       /\ \A j \in flat : part(j) <= part(k)
                       /\ \A j \in flat : j < k => part(j) < part(k)
        max_x_idx == max_idx % x_size
        max_y_idx == max_idx \div x_size
        max_height == part(max_y_idx * x_size + max_x_idx)
        max_x == x_lower + max_x_idx * t.x_rsl
        max_y == y_lower + max_y_idx * t.y_rsl
    IN  IF x_size * y_size = 0
        THEN ValueError
        ELSE Return(<<max_x, max_y, max_height>>)

(***************************************************************************)
(* Terrain queries on height fields of every size up to MaxDim.            *)
(***************************************************************************)
MaxDim == 3

Dims == 2 .. MaxDim
Resolutions == {2}
Offsets == {<<0, 0, 0>>, <<1, -1, 2>>}

\* An elevation above every elevation of a ramp.
peakRise == 2 * (MaxDim * MaxDim + 1)

\* A height field with one strict maximum, at index (peak_y, peak_x): a ramp
\* of the given slope (0: flat) with the peak added.
peakField(y_dim, x_dim, peak_y, peak_x, slope, rise) ==
    [iy \in 0 .. (y_dim - 1) |->
        [ix \in 0 .. (x_dim - 1) |->
            slope * (ix + x_dim * iy) + (IF iy = peak_y /\ ix = peak_x THEN rise ELSE 0)]]

Terrains ==
    {HeightFieldTerrain(peakField(yd, xd, py, px, slope, peakRise), yd, xd, rsl, off) :
        <<yd, xd, py, px, slope, rsl, off>> \in
            {c \in Dims \X Dims \X (0 .. (MaxDim - 1)) \X (0 .. (MaxDim - 1))
                        \X {0, 2} \X Resolutions \X Offsets :
                c[3] < c[1] /\ c[4] < c[2]}}

\* A query reads the terrain and changes nothing, so what it returns depends
\* on the terrain and its arguments alone: a behaviour is one query on one
\* terrain.
\* Query points from far below the grid (an index below -dim) to above it.
QueryCoords == (0 - (4 * MaxDim + 2)) .. (2 * MaxDim)
\* End points of the peak query's ranges.
RangeCoords == (0 - (MaxDim + 2)) .. (MaxDim + 1)
Ranges == {r \in RangeCoords \X RangeCoords : r[1] < r[2]}

callGetHeight ==
    /\ query = NoQuery
    /\ \E x \in QueryCoords, y \in QueryCoords :
           /\ query' = [op |-> "getHeight", x |-> x, y |-> y]
           /\ result' = Return(getHeight(terrain, x, y))
    /\ UNCHANGED terrain
    /\ UNCHANGED curriculumVars
    /\ UNCHANGED <<managerVars, env>>

callGetNormal ==
    /\ query = NoQuery
    /\ \E x \in QueryCoords, y \in QueryCoords :
           /\ query' = [op |-> "getNormal", x |-> x, y |-> y]
           /\ result' = Return(getNormal(terrain, x, y))
    /\ UNCHANGED terrain
    /\ UNCHANGED curriculumVars
    /\ UNCHANGED <<managerVars, env>>

callGetMaxHeightInRange ==
    /\ query = NoQuery
    /\ \E x_range \in Ranges, y_range \in Ranges :
           /\ query' = [op |-> "getMaxHeightInRange", x_range |-> x_range, y_range |-> y_range]
           /\ result' = getMaxHeightInRange(terrain, x_range, y_range)
    /\ UNCHANGED terrain
    /\ UNCHANGED curriculumVars
    /\ UNCHANGED <<managerVars, env>>

\* The curriculum's fields in the specifications that have no curriculum.
noCurriculum ==
    /\ cfg = CfgE2E
    /\ curriculumInit

InitTerrain ==
    /\ terrain \in Terrains
    /\ query = NoQuery
    /\ result = None
    /\ noCurriculum
    /\ noManager
    /\ noEnv

NextTerrain == callGetHeight \/ callGetNormal \/ callGetMaxHeightInRange

SpecTerrain == InitTerrain /\ [][NextTerrain]_vars

(***************************************************************************)
(* The end-to-end geometry fixture: a 5 x 5 grid of resolution 1 with zero *)
(* offset, every elevation 0 except 1.0 at index (2, 2).  The unit is half *)
(* a metre: the resolution is 2 and the elevation 1.0 is 2.                *)
(***************************************************************************)
fixtureTerrain ==
    HeightFieldTerrain(peakField(5, 5, 2, 2, 0, 2), 5, 5, 2, <<0, 0, 0>>)

InitGeometry ==
    /\ terrain = fixtureTerrain
    /\ query = NoQuery
    /\ result = None
    /\ noCurriculum
    /\ noManager
    /\ noEnv

SpecGeometry == InitGeometry /\ [][NextTerrain]_vars

(***************************************************************************)
(* Properties of the curriculum.                                           *)
(***************************************************************************)
\* A step of the specification that is a register call.
IsRegisterStep == counter' = counter + 1

lowerThreshold == cfg.distance_threshold[1]
upperThreshold == cfg.distance_threshold[2]

\* C1: after any sequence of register calls difficulty_level is at least 0
\* and at most max_level = max_difficulty / difficulty_step.
C1_LevelWithinBounds ==
    /\ difficulty_level >= 0
    /\ difficulty_level * cfg.difficulty_step <= cfg.max_difficulty

\* C2: in every reachable state 0 <= difficulty <= max_difficulty, for every
\* positive difficulty_step, dividing max_difficulty or not.
C2_DifficultyWithinBounds ==
    /\ 0 <= difficulty
    /\ difficulty <= cfg.max_difficulty

\* C3: every register call updates the streaks from the outcome: a timeout
\* (episode_len = max_sim_iterations) sets miss to 0 and adds exactly 1 to
\* combo, any other outcome sets combo to 0 and adds exactly 1 to miss.
C3_StreakUpdate ==
    [][IsRegisterStep =>
          IF call'.episode_len = max_sim_iterations
          THEN miss' = 0 /\ combo' = combo + 1
          ELSE combo' = 0 /\ miss' = miss + 1]_vars

C3_Witness ==
    /\ counter > 0
    /\ call.episode_len = max_sim_iterations
    /\ combo = 3
    /\ miss = 0

\* C4: register returns False exactly when, after the streak update,
\* combo < combo_threshold and miss < miss_threshold, and then it leaves
\* difficulty_level and difficulty unchanged; otherwise it returns True.
C4_ReturnValue ==
    [][IsRegisterStep =>
          /\ ret' \in BOOLEAN
          /\ (ret' = FALSE) <=>
                 (combo' < cfg.combo_threshold /\ miss' < cfg.miss_threshold)
          /\ (ret' = FALSE) =>
                 (difficulty_level' = difficulty_level /\ difficulty' = difficulty)]_vars

\* True is returned although the level holds: a combo streak at the threshold
\* with the distance inside [lower, upper], at the floor.
C4_Witness ==
    /\ counter > 0
    /\ ret = TRUE
    /\ combo >= cfg.combo_threshold
    /\ call.distance = 300
    /\ difficulty_level = 0

\* C5: when after the streak update miss >= miss_threshold, register lowers
\* difficulty_level by exactly one if it is > 0 and leaves it at 0 otherwise,
\* and resets neither streak: miss keeps its incremented value.
C5_MissBranch ==
    [][(IsRegisterStep /\ miss' >= cfg.miss_threshold) =>
          /\ difficulty_level' = (IF difficulty_level > 0 THEN difficulty_level - 1 ELSE 0)
          /\ miss' = miss + 1
          /\ combo' = 0
          /\ ret' = TRUE]_vars

\* A level above the floor was lowered by a miss streak and is still above 0.
C5_Witness ==
    /\ counter > 0
    /\ miss >= cfg.miss_threshold
    /\ ret = TRUE
    /\ difficulty_level >= 1

\* C6 as stated: in the combo branch the level is increased by one if
\* distance > upper, decreased by one if distance < lower, unchanged otherwise.
C6_ComboBranchAsStated ==
    [][(IsRegisterStep /\ combo' >= cfg.combo_threshold /\ miss' < cfg.miss_threshold) =>
          difficulty_level' =
              (IF call'.distance > upperThreshold THEN difficulty_level + 1
               ELSE IF call'.distance < lowerThreshold THEN difficulty_level - 1
               ELSE difficulty_level)]_vars

\* C6 amended: in the combo branch the level is increased by one if
\* distance > upper and difficulty < max_difficulty, decreased by one if
\* distance < lower and the level is > 0, and unchanged in every other case.
C6_ComboBranch ==
    [][(IsRegisterStep /\ combo' >= cfg.combo_threshold /\ miss' < cfg.miss_threshold) =>
          difficulty_level' =
              (IF call'.distance > upperThreshold
               THEN (IF difficulty < cfg.max_difficulty
                     THEN difficulty_level + 1 ELSE difficulty_level)
               ELSE IF call'.distance < lowerThreshold
               THEN (IF difficulty_level > 0
                     THEN difficulty_level - 1 ELSE difficulty_level)
               ELSE difficulty_level)]_vars

\* The combo branch has raised the level.
C6_Witness ==
    /\ counter > 0
    /\ ret = TRUE
    /\ combo >= cfg.combo_threshold
    /\ call.distance > upperThreshold
    /\ difficulty_level >= 1

\* C7: under CfgE2E, three consecutive timeouts with distance 5.0 leave
\* difficulty at 0 after the first two calls and make it 0.05 after the third;
\* two non-timeout outcomes right after them bring it back to 0.
TimeoutAt5 == [episode_len |-> max_sim_iterations, distance |-> 500]
IsTimeouts(n) == Len(hist) = n /\ \A i \in 1..n : hist[i] = TimeoutAt5
IsE2EScenario ==
    /\ Len(hist) = 5
    /\ \A i \in 1..3 : hist[i] = TimeoutAt5
    /\ \A i \in 4..5 : hist[i].episode_len # max_sim_iterations

C7_EndToEndCurriculum ==
    /\ (IsTimeouts(1) \/ IsTimeouts(2)) => difficulty = 0
    /\ IsTimeouts(3) => difficulty = 5
    /\ IsE2EScenario => difficulty = 0

C7_Witness ==
    /\ IsE2EScenario
    /\ difficulty = 0
    /\ difficulty_level = 0

(***************************************************************************)
(* Properties of the terrain queries.                                      *)
(***************************************************************************)
IsPointQuery == query.op \in {"getHeight", "getNormal"}
IsRangeQuery == query.op = "getMaxHeightInRange"

\* The grid's extent on each axis: from its first vertex to its last.
xInGrid(t, x) == xIdx2Coord(t, 0) <= x /\ x <= xIdx2Coord(t, t.x_dim - 1)
yInGrid(t, y) == yIdx2Coord(t, 0) <= y /\ y <= yIdx2Coord(t, t.y_dim - 1)
OutsideGrid(t, x, y) == ~xInGrid(t, x) \/ ~yInGrid(t, y)

\* C8: a height or normal query at a point outside the grid extent, on any
\* side and at any distance, raises nothing and returns the default:
\* getHeight 0.0, getNormal (0, 0, 1).
C8_OutOfGridDefault ==
    (IsPointQuery /\ OutsideGrid(terrain, query.x, query.y)) =>
        /\ query.op = "getHeight" => result = Return(0)
        /\ query.op = "getNormal" => result = Return(upVector)

\* The index (iy, ix) of the largest elevation of a field that has one.
peakIndex(t) ==
    CHOOSE p \in (0 .. (t.y_dim - 1)) \X (0 .. (t.x_dim - 1)) :
        \A q \in (0 .. (t.y_dim - 1)) \X (0 .. (t.x_dim - 1)) :
            q # p => t.height_field[q[1]][q[2]] < t.height_field[p[1]][p[2]]
peakX(t) == xIdx2Coord(t, peakIndex(t)[2])
peakY(t) == yIdx2Coord(t, peakIndex(t)[1])
peakElevation(t) == t.height_field[peakIndex(t)[1]][peakIndex(t)[2]]

\* C9: on a field with a single strict maximum, the peak query over any
\* rectangle that contains the maximum's vertex returns that vertex's world
\* coordinates and its elevation, whatever the rectangle's lower bounds.
C9_PeakOfRegion ==
    (/\ IsRangeQuery
     /\ query.x_range[1] <= peakX(terrain) /\ peakX(terrain) <= query.x_range[2]
     /\ query.y_range[1] <= peakY(terrain) /\ peakY(terrain) <= query.y_range[2]) =>
        result = Return(<<peakX(terrain), peakY(terrain), peakElevation(terrain)>>)

\* C10: on the 5 x 5 fixture getHeight(0, 0) = 1.0, getHeight(-2, -2) = 0.0
\* and the peak query over x in (-1, 1), y in (-1, 1) returns (0, 0, 1.0)
\* (in half metres: 1.0 is 2, -2 is -4, the ranges are (-2, 2)).
C10_EndToEndGeometry ==
    /\ query = [op |-> "getHeight", x |-> 0, y |-> 0] => result = Return(2)
    /\ query = [op |-> "getHeight", x |-> -4, y |-> -4] => result = Return(0)
    /\ query = [op |-> "getMaxHeightInRange", x_range |-> <<-2, 2>>, y_range |-> <<-2, 2>>]
           => result = Return(<<0, 0, 2>>)

C10_Witness ==
    /\ terrain = fixtureTerrain
    /\ query = [op |-> "getMaxHeightInRange", x_range |-> <<-2, 2>>, y_range |-> <<-2, 2>>]
    /\ result = Return(<<0, 0, 2>>)

\* The cells of the grid, the two closed triangles of a cell and the plane
\* through a triangle's three vertices, read from the stored elevations.
cellsOf(t) == (0 .. (t.y_dim - 2)) \X (0 .. (t.x_dim - 2))
cellDx(t, c, x) == x - xIdx2Coord(t, c[2])
cellDy(t, c, y) == y - yIdx2Coord(t, c[1])
cellSum(t, c, x, y) == cellDx(t, c, x) * t.y_rsl + cellDy(t, c, y) * t.x_rsl
inLowerTriangle(t, c, x, y) ==
    /\ cellDx(t, c, x) >= 0
    /\ cellDy(t, c, y) >= 0
    /\ cellSum(t, c, x, y) <= t.x_rsl * t.y_rsl
inUpperTriangle(t, c, x, y) ==
    /\ cellDx(t, c, x) <= t.x_rsl
    /\ cellDy(t, c, y) <= t.y_rsl
    /\ cellSum(t, c, x, y) >= t.x_rsl * t.y_rsl
lowerPlane(t, c, x, y) ==
    LET z00 == t.height_field[c[1]][c[2]]
        z10 == t.height_field[c[1]][c[2] + 1]
        z01 == t.height_field[c[1] + 1][c[2]]
    IN  z00 + exactQuotient(cellDx(t, c, x) * t.y_rsl * (z10 - z00)
                                + cellDy(t, c, y) * t.x_rsl * (z01 - z00),
                            t.x_rsl * t.y_rsl)
upperPlane(t, c, x, y) ==
    LET z11 == t.height_field[c[1] + 1][c[2] + 1]
        z10 == t.height_field[c[1]][c[2] + 1]
        z01 == t.height_field[c[1] + 1][c[2]]
    IN  z11 + exactQuotient((t.x_rsl - cellDx(t, c, x)) * t.y_rsl * (z01 - z11)
                                + (t.y_rsl - cellDy(t, c, y)) * t.x_rsl * (z10 - z11),
                            t.x_rsl * t.y_rsl)

\* The grid interior: strictly between the first and the last vertex.
InInterior(t, x, y) ==
    /\ xIdx2Coord(t, 0) < x /\ x < xIdx2Coord(t, t.x_dim - 1)
    /\ yIdx2Coord(t, 0) < y /\ y < yIdx2Coord(t, t.y_dim - 1)

\* C11: getHeight is continuous over the grid interior for every offset: at
\* an interior point it is, for every closed triangle that contains the
\* point, the value there of the plane through the triangle's vertices plus
\* offset.z, so the triangles agree on the diagonal and on shared edges and
\* the value at a vertex is the limit of the values around it.
C11_Continuous ==
    (query.op = "getHeight" /\ InInterior(terrain, query.x, query.y)) =>
        \A c \in cellsOf(terrain) :
            /\ inLowerTriangle(terrain, c, query.x, query.y) =>
                   result = Return(lowerPlane(terrain, c, query.x, query.y) + terrain.offset[3])
            /\ inUpperTriangle(terrain, c, query.x, query.y) =>
                   result = Return(upperPlane(terrain, c, query.x, query.y) + terrain.offset[3])

\* The same with the grid vertices left out, and at the vertices of a
\* terrain whose offset.z is 0: there the interpolated surface is continuous.
IsVertex(t, x, y) ==
    \E iy \in 0 .. (t.y_dim - 1), ix \in 0 .. (t.x_dim - 1) :
        x = xIdx2Coord(t, ix) /\ y = yIdx2Coord(t, iy)
C11_ContinuousOffVertices ==
    (/\ query.op = "getHeight"
     /\ InInterior(terrain, query.x, query.y)
     /\ (~IsVertex(terrain, query.x, query.y) \/ terrain.offset[3] = 0)) =>
        \A c \in cellsOf(terrain) :
            /\ inLowerTriangle(terrain, c, query.x, query.y) =>
                   result = Return(lowerPlane(terrain, c, query.x, query.y) + terrain.offset[3])
            /\ inUpperTriangle(terrain, c, query.x, query.y) =>
                   result = Return(upperPlane(terrain, c, query.x, query.y) + terrain.offset[3])

\* The cell of an in-bounds point: the one whose half-open square holds it.
HasCell(t, x, y) ==
    /\ xIdx2Coord(t, 0) <= x /\ x < xIdx2Coord(t, t.x_dim - 1)
    /\ yIdx2Coord(t, 0) <= y /\ y < yIdx2Coord(t, t.y_dim - 1)
cellAt(t, x, y) ==
    CHOOSE c \in cellsOf(t) :
        /\ 0 <= cellDx(t, c, x) /\ cellDx(t, c, x) < t.x_rsl
        /\ 0 <= cellDy(t, c, y) /\ cellDy(t, c, y) < t.y_rsl
selectsLower(t, x, y) == cellSum(t, cellAt(t, x, y), x, y) < t.x_rsl * t.y_rsl

\* The upward normal of the selected triangle's plane, from its two slopes:
\* (-dz/dx, -dz/dy, 1) scaled by x_rsl * y_rsl.
planeNormal(t, x, y) ==
    LET c == cellAt(t, x, y)
        z00 == t.height_field[c[1]][c[2]]
        z10 == t.height_field[c[1]][c[2] + 1]
        z01 == t.height_field[c[1] + 1][c[2]]
        z11 == t.height_field[c[1] + 1][c[2] + 1]
        dzx == IF selectsLower(t, x, y) THEN z10 - z00 ELSE z11 - z01
        dzy == IF selectsLower(t, x, y) THEN z01 - z00 ELSE z11 - z10
    IN  <<-(dzx * t.y_rsl), -(dzy * t.x_rsl), t.x_rsl * t.y_rsl>>

IsUnitLength(n) == n.norm2 = n.dir[1] * n.dir[1] + n.dir[2] * n.dir[2] + n.dir[3] * n.dir[3]

PlainTerrain(client) == [class |-> "PlainTerrain", terrain_id |-> client.bodies]

PlainTerrain_getHeight(t, x, y) == 0
PlainTerrain_getNormal(t, x, y) == upVector
PlainTerrain_getMaxHeightInRange(t, x_range, y_range) == <<0, 0, 0>>

callPlainGetHeight ==
    /\ query = NoQuery
    /\ \E x \in QueryCoords, y \in QueryCoords :
           /\ query' = [op |-> "getHeight", x |-> x, y |-> y]
           /\ result' = Return(PlainTerrain_getHeight(terrain, x, y))
    /\ UNCHANGED <<terrain, curriculumVars, managerVars, env>>

callPlainGetNormal ==
    /\ query = NoQuery
    /\ \E x \in QueryCoords, y \in QueryCoords :
           /\ query' = [op |-> "getNormal", x |-> x, y |-> y]
           /\ result' = Return(PlainTerrain_getNormal(terrain, x, y))
    /\ UNCHANGED <<terrain, curriculumVars, managerVars, env>>

callPlainGetMaxHeightInRange ==
    /\ query = NoQuery
    /\ \E x_range \in Ranges, y_range \in Ranges :
           /\ query' = [op |-> "getMaxHeightInRange", x_range |-> x_range, y_range |-> y_range]
           /\ result' = Return(PlainTerrain_getMaxHeightInRange(terrain, x_range, y_range))
    /\ UNCHANGED <<terrain, curriculumVars, managerVars, env>>

\* PlainTerrainManager.__init__ on a fresh physics client.
InitPlain ==
    /\ terrain = PlainTerrain([shapes |-> 0, bodies |-> 0])
    /\ query = NoQuery
    /\ result = None
    /\ noCurriculum
    /\ objects = <<>>
    /\ building = None
    /\ bullet = [shapes |-> 0, bodies |-> 1]
    /\ rng = 0
    /\ handle = NoHandle
    /\ noEnv

NextPlain == callPlainGetHeight \/ callPlainGetNormal \/ callPlainGetMaxHeightInRange

SpecPlain == InitPlain /\ [][NextPlain]_vars

\* C19: on the plain terrain every height query returns 0, every normal
\* query returns (0, 0, 1) and the peak query over a rectangle returns the
\* centre of the rectangle at height 0.
C19_PlainQueries ==
    /\ query.op = "getHeight" => result = Return(0)
    /\ query.op = "getNormal" => result = Return(upVector)
    /\ query.op = "getMaxHeightInRange" =>
           /\ result.kind = "return"
           /\ 2 * result.value[1] = query.x_range[1] + query.x_range[2]
           /\ 2 * result.value[2] = query.y_range[1] + query.y_range[2]
           /\ result.value[3] = 0

\* What the plain terrain does return: height 0, normal (0, 0, 1) and, for
\* the peak query, the origin at height 0 whatever the rectangle.
C19_PlainQueriesAtOrigin ==
    /\ query.op = "getHeight" => result = Return(0)
    /\ query.op = "getNormal" => result = Return(upVector)
    /\ query.op = "getMaxHeightInRange" => result = Return(<<0, 0, 0>>)

(***************************************************************************)
(* RandomUniformTerrain: the rough-terrain generator.                      *)
(*                                                                         *)
(* numpy's global generator is a state and a fixed map from one state to   *)
(* the next; a draw advances the state and returns a number in [0, 1) that *)
(* depends on the state alone.  The model keeps a small generator of that  *)
(* shape: states 0 .. RngModulus - 1, each draw moves the state on by      *)
(* RngStride, the draw in state s is s / RngModulus.  Elevations drawn     *)
(* with uniform(0, roughness) are kept as roughness * s, in units of       *)
(* 1 / RngModulus of the roughness unit.                                   *)
(***************************************************************************)
RngModulus == 4
RngStates == 0 .. (RngModulus - 1)
RngStride == 3
nextState(s) == (s + RngStride) % RngModulus
\* The state n draws after state s.
stateAfter(s, n) == (s + RngStride * n) % RngModulus

\* An argument that is given, as opposed to None.
Some(v) == [kind |-> "value", value |-> v]

\* Variant: the generator is left in the state it is in.
seedStates_noReseed(seed, s) == {s}

\* np.random.seed(seed): the states the generator can be in afterwards.  A
\* seed fixes the state; None reseeds from the operating system's entropy.
seedStates(seed, s) ==
    IF seed = None THEN RngStates ELSE {seed.value % RngModulus}

\* RandomUniformTerrain.__init__ up to the registration with the physics
\* client, for a downsample of 1: the sampled grid then has the resolution
\* of the height field, and the cubic interpolant, which passes through its
\* samples, is read at the samples only.  s0 is the generator's state after
\* np.random.seed.
sampleTerrain(size, downsample, roughness, resolution, offset, seed, s0) ==
    LET sample_rsl == downsample * resolution
        \* np.arange(-size/2 - 3*sample_rsl, size/2 + 4*sample_rsl, sample_rsl).size
        x_size == (size \div sample_rsl) + 7
        height_field_downsampled ==
            [a \in 0 .. (x_size - 1) |->
                [b \in 0 .. (x_size - 1) |-> roughness * stateAfter(s0, a * x_size + b + 1)]]
        data_size == (size \div resolution) + 1
        \* terrain_func(x_upsampled, y_upsampled): node i of the height field
        \* is sample 3 + i * downsample
        height_field ==
            [iy \in 0 .. (data_size - 1) |->
                [ix \in 0 .. (data_size - 1) |->
                    height_field_downsampled[3 + iy * downsample][3 + ix * downsample]]]
    IN  [class |-> "RandomUniformTerrain",
         size |-> size,
         downsample |-> downsample,
         roughness |-> roughness,
         seed |-> seed,
         terrain_func |-> height_field_downsampled,
         samples |-> x_size * x_size,
         terrain_shape |-> NoHandle,
         terrain_id |-> NoHandle]
        @@ HeightFieldTerrain(height_field, data_size, data_size, resolution, offset)

\* HeightFieldTerrain.__init__'s createCollisionShape and createMultiBody:
\* the client numbers the shapes and the bodies it creates from 0 upwards.
createBody(t, client) ==
    [t EXCEPT !.terrain_shape = client.shapes, !.terrain_id = client.bodies]
clientAfterCreate(client) ==
    [shapes |-> client.shapes + 1, bodies |-> client.bodies + 1]

RandomUniformTerrain(client, size, downsample, roughness, resolution, offset, seed, s0) ==
    createBody(sampleTerrain(size, downsample, roughness, resolution, offset, seed, s0), client)

\* RandomUniformTerrain.getHeight at a sample of the interpolant:
\* terrain_func(x, y) + offset[2], with x and y not shifted by the offset.
sampleIndex(t, x) == ((x + (t.size \div 2)) \div (t.downsample * t.x_rsl)) + 3
RandomUniformTerrain_getHeight(t, x, y) ==
    t.terrain_func[sampleIndex(t, y)][sampleIndex(t, x)] + t.offset[3]

\* Variant: a roughness of 0.0 counts as not given.
makeStandardRoughTerrain_falsy(roughness, seed, s0) ==
    sampleTerrain(cfg.trn_size, cfg.trn_downsample,
                  IF roughness = None \/ roughness.value = 0
                  THEN cfg.trn_roughness ELSE roughness.value,
                  cfg.trn_resolution, cfg.trn_offset, seed, s0)

\* makeStandardRoughTerrain, up to the registration with the physics client.
makeStandardRoughTerrain(roughness, seed, s0) ==
    sampleTerrain(cfg.trn_size, cfg.trn_downsample,
                  IF roughness = None THEN cfg.trn_roughness ELSE roughness.value,
                  cfg.trn_resolution, cfg.trn_offset, seed, s0)

(***************************************************************************)
(* TerrainCurriculum as a terrain manager: register, reset and the         *)
(* queries it passes on to its terrain.                                    *)
(*                                                                         *)
(* objects holds the terrain objects the manager has referred to, in the   *)
(* order of their construction; in this specification terrain is the       *)
(* manager's reference self.terrain, an index of objects.  reset runs in   *)
(* three steps (sample the field, register it with the physics client,     *)
(* assign self.terrain) and queries may come between them.                 *)
(***************************************************************************)
MaxManagerCalls == 2   \* register calls per run of SpecManager
MaxResets == 1         \* reset calls per run of SpecManager

CfgManager ==
    [combo_threshold |-> 1, miss_threshold |-> 1, difficulty_step |-> 15,
     max_difficulty |-> 30, distance_threshold |-> <<200, 400>>,
     trn_size |-> 2, trn_downsample |-> 1, trn_roughness |-> 10,
     trn_resolution |-> 2, trn_offset |-> <<0, 0, 0>>]

ManagerEpisodeLens == {1, max_sim_iterations}
ManagerDistances == {150, 500}
\* The vertices of the height field of CfgManager, on each axis.
ManagerNodes == {-1, 1}

\* The manager's own fields.
managerSelf ==
    [terrain |-> terrain, counter |-> counter, difficulty |-> difficulty,
     difficulty_level |-> difficulty_level, combo |-> combo, miss |-> miss]

\* Variant: the new field is written into the object the manager refers to.
assignTerrain_inPlace(self, objs, new) ==
    [self |-> self, objects |-> [objs EXCEPT ![self.terrain] = new]]

\* Variant: the manager's fields are set as __init__ sets them.
assignTerrain_reinit(self, objs, new) ==
    [self |-> [terrain |-> Len(objs) + 1, counter |-> 0, difficulty |-> 0,
               difficulty_level |-> 0, combo |-> 0, miss |-> 0],
     objects |-> Append(objs, new)]

\* self.terrain = <the new object>: the one assignment of reset.
assignTerrain(self, objs, new) ==
    [self |-> [self EXCEPT !.terrain = Len(objs) + 1],
     objects |-> Append(objs, new)]

managerRegister ==
    /\ building = None
    /\ counter < MaxManagerCalls
    /\ \E episode_len \in ManagerEpisodeLens, distance \in ManagerDistances :
           registerCall(episode_len, distance)
    /\ UNCHANGED <<hist, terrainVars, managerVars, env>>

\* reset, first step: makeStandardRoughTerrain(bullet_client, self.difficulty)
\* seeds the generator with None and samples the field.
resetSample ==
    /\ building = None
    /\ Len(objects) <= MaxResets
    /\ \E s0 \in seedStates(None, rng) :
           /\ building' = makeStandardRoughTerrain(Some(difficulty), None, s0)
           /\ rng' = stateAfter(s0, building'.samples)
    /\ UNCHANGED <<curriculumVars, terrainVars, objects, bullet, handle, env>>

\* reset, second step: the new object's shape and body are created.
resetCreateBody ==
    /\ building # None
    /\ building.terrain_id = NoHandle
    /\ building' = createBody(building, bullet)
    /\ bullet' = clientAfterCreate(bullet)
    /\ UNCHANGED <<curriculumVars, terrainVars, objects, rng, handle, env>>

\* reset, last step: self.terrain is assigned.
resetAssign ==
    /\ building # None
    /\ building.terrain_id # NoHandle
    /\ LET out == assignTerrain(managerSelf, objects, building)
       IN  /\ objects' = out.objects
           /\ terrain' = out.self.terrain
           /\ counter' = out.self.counter
           /\ difficulty' = out.self.difficulty
           /\ difficulty_level' = out.self.difficulty_level
           /\ combo' = out.self.combo
           /\ miss' = out.self.miss
    /\ building' = None
    /\ UNCHANGED <<cfg, call, ret, hist, query, result, bullet, rng, handle, env>>

\* manager.getHeight(x, y): __getattr__ passes the call to self.terrain.
\* during tells whether a reset was running when the query was made.
managerGetHeight ==
    /\ \E x \in ManagerNodes, y \in ManagerNodes :
           /\ query' = [op |-> "getHeight", x |-> x, y |-> y, during |-> building # None]
           /\ result' = Return(RandomUniformTerrain_getHeight(objects[terrain], x, y))
    /\ UNCHANGED <<curriculumVars, terrain, managerVars, env>>

\* manager.id, read once by a caller that keeps it.
managerGetId ==
    /\ handle = NoHandle
    /\ handle' = objects[terrain].terrain_id
    /\ UNCHANGED <<curriculumVars, terrainVars, objects, building, bullet, rng, env>>

\* TerrainCurriculum.__init__ on a fresh physics client: the first terrain
\* has roughness 0.0.
InitManager ==
    /\ cfg = CfgManager
    /\ curriculumInit
    /\ \E s0 \in seedStates(None, 0) :
           /\ objects = <<createBody(makeStandardRoughTerrain(Some(0), None, s0),
                                     [shapes |-> 0, bodies |-> 0])>>
           /\ rng = stateAfter(s0, objects[1].samples)
    /\ terrain = 1
    /\ query = NoQuery
    /\ result = None
    /\ building = None
    /\ bullet = clientAfterCreate([shapes |-> 0, bodies |-> 0])
    /\ handle = NoHandle
    /\ noEnv

NextManager ==
    \/ managerRegister
    \/ resetSample
    \/ resetCreateBody
    \/ resetAssign
    \/ managerGetHeight
    \/ managerGetId

SpecManager == InitManager /\ [][NextManager]_vars

(***************************************************************************)
(* Properties of the terrain manager.                                      *)
(***************************************************************************)
\* A terrain object whose construction has finished.
IsComplete(t) ==
    /\ t # None
    /\ t.terrain_id # NoHandle
    /\ DOMAIN t.height_field = 0 .. (t.y_dim - 1)

\* C13: a regeneration is one indivisible publish.  The manager's reference
\* always leads to a completely constructed terrain; it changes in one step
\* only, from the old object to the new one that reset has finished
\* building; and no object is changed once the manager has referred to it.
\* A query made before, during or after a reset therefore reads the whole
\* old height field or the whole new one.
C13_AtomicPublish ==
    /\ IsComplete(objects[terrain])
    /\ [][/\ IsComplete(objects'[terrain'])
          /\ \A i \in 1 .. Len(objects) : Len(objects') >= i /\ objects'[i] = objects[i]
          /\ terrain' # terrain =>
                 /\ IsComplete(building)
                 /\ terrain' = Len(objects) + 1
                 /\ objects'[terrain'] = building]_vars

\* A query made while a reset was running returned the old field's value at
\* its vertex, and the reset has since published a field that differs there.
C13_Witness ==
    /\ query.op = "getHeight"
    /\ query.during
    /\ building = None
    /\ Len(objects) = 2
    /\ terrain = 2
    /\ result = Return(RandomUniformTerrain_getHeight(objects[1], query.x, query.y))
    /\ result # Return(RandomUniformTerrain_getHeight(objects[2], query.x, query.y))

\* C14: a regeneration keeps the terrain's handle: the id a caller read
\* before it is the id of the manager's current terrain after it.
C14_HandleKept ==
    handle # NoHandle => handle = objects[terrain].terrain_id

\* C16: every terrain the curriculum produces has its roughness equal to the
\* difficulty at the moment it is generated: 0 for the first one, and the
\* current difficulty for the one a reset builds and publishes.
C16_RoughnessIsDifficulty ==
    /\ objects[1].roughness = 0
    /\ [][/\ (building = None /\ building' # None) => building'.roughness = difficulty
          /\ terrain' # terrain => objects'[terrain'].roughness = difficulty]_vars

\* A terrain generated at difficulty 0.15 after the first one at 0, with the
\* difficulty raised again since.
C16_Witness ==
    /\ Len(objects) = 2
    /\ objects[1].roughness = 0
    /\ objects[terrain].roughness = 15
    /\ difficulty = 30

\* C17: difficulty, difficulty_level, combo and miss change in register
\* only: every step of reset and every query leaves the four unchanged.
C17_OnlyRegisterChanges ==
    [][~IsRegisterStep => UNCHANGED <<difficulty, difficulty_level, combo, miss>>]_vars

\* A reset has published a new terrain and a query has read it, with the
\* difficulty state of the register calls before them intact.
C17_Witness ==
    /\ counter = 1
    /\ difficulty = 15
    /\ difficulty_level = 1
    /\ combo = 1
    /\ terrain = 2
    /\ query.op = "getHeight"
    /\ ~query.during

(***************************************************************************)
(* The generator on its own: RandomUniformTerrain objects constructed with *)
(* a seed, among other draws from numpy's global generator.                *)
(***************************************************************************)
MaxGenerated == 2      \* terrains constructed per run of SpecGenerator

GeneratorSeeds == {None, Some(1), Some(2)}
GeneratorSizes == {2, 4}
GeneratorRoughness == {10, 20}

\* RandomUniformTerrain(bullet_client, size, 1, roughness, 2, (0, 0, 0), seed).
\* query keeps the arguments and the generator's state at the call.
construct ==
    /\ Len(objects) < MaxGenerated
    /\ \E seed \in GeneratorSeeds, size \in GeneratorSizes, roughness \in GeneratorRoughness :
           \E s0 \in seedStates(seed, rng) :
               LET t == RandomUniformTerrain(bullet, size, 1, roughness, 2, <<0, 0, 0>>, seed, s0)
               IN  /\ objects' = Append(objects, t)
                   /\ rng' = stateAfter(s0, t.samples)
                   /\ query' = [op |-> "RandomUniformTerrain", seed |-> seed, state |-> rng]
                   /\ result' = Return(t.height_field)
    /\ bullet' = clientAfterCreate(bullet)
    /\ UNCHANGED <<curriculumVars, terrain, building, handle, env>>

\* Any other draw from the global generator, such as the disturbance
\* forces of the environment.
otherDraw ==
    /\ rng' = nextState(rng)
    /\ query' = [op |-> "uniform"]
    /\ result' = Return(rng')
    /\ UNCHANGED <<curriculumVars, terrain, objects, building, bullet, handle, env>>

InitGenerator ==
    /\ noCurriculum
    /\ noTerrain
    /\ noManager
    /\ noEnv

NextGenerator == construct \/ otherDraw

SpecGenerator == InitGenerator /\ [][NextGenerator]_vars

SameParameters(a, b) ==
    /\ a.size = b.size
    /\ a.x_rsl = b.x_rsl
    /\ a.downsample = b.downsample
    /\ a.roughness = b.roughness

\* C18: two terrains generated with the same seed, not None, and the same
\* size, resolution, downsample and roughness have the same height field,
\* whatever was drawn from the generator before and between them.
C18_SeedDeterminism ==
    \A i \in 1 .. Len(objects), j \in 1 .. Len(objects) :
        (/\ objects[i].seed # None
         /\ objects[i].seed = objects[j].seed
         /\ SameParameters(objects[i], objects[j])) =>
            /\ objects[i].height_field = objects[j].height_field
            /\ objects[i].terrain_func = objects[j].terrain_func

\* Two terrains of one seed and one set of parameters, the second one
\* constructed when the generator was not in the state the seed gives, with
\* the same height field, which is not flat.
C18_Witness ==
    /\ Len(objects) = 2
    /\ objects[1].seed = Some(1)
    /\ objects[2].seed = Some(1)
    /\ SameParameters(objects[1], objects[2])
    /\ query.op = "RandomUniformTerrain"
    /\ query.state \notin seedStates(Some(1), query.state)
    /\ objects[1].height_field = objects[2].height_field
    /\ objects[2].height_field[0][0] # objects[2].height_field[0][1]

(***************************************************************************)
(* QuadrupedEnv (src/burl/sim/env.py) with a TerrainCurriculum as its      *)
(* terrain, without rendering (g_cfg.rendering is False): step and reset.  *)
(* env holds _sim_step_counter, whether the last step returned done, the   *)
(* number of reset calls and whether the last reset regenerated the        *)
(* terrain.  The caller resets an environment whose step returned done     *)
(* (EnvContainer.reset) and steps it otherwise.                            *)
(***************************************************************************)
MaxEpisodes == 2       \* episodes per run of SpecEnv

sim_frequency == 400
action_frequency == 50
\* int(g_cfg.sim_frequency / g_cfg.action_frequency)
num_action_repeats == sim_frequency \div action_frequency

\* reset's local completely_reset: the call of curriculumUpdate that set it
\* is commented out.
completely_reset == FALSE

\* _resetStates
resetStates(e) == [e EXCEPT !.sim_step_counter = 0]

\* _updateRendering, lines 127-129: with the GUI, the episode is reset when
\* the 'reset' control of the debug window has changed.  It is read after
\* every simulation step under single_step_rendering and once after the
\* loop otherwise; 0 stands for no reset during the step, n > 0 for the last
\* reset coming after the n-th simulation step.
ResetPoints(e) ==
    IF ~e.gui THEN {0}
    ELSE IF e.single_step_rendering THEN 0 .. num_action_repeats
    ELSE {0, num_action_repeats}

\* step: num_action_repeats simulation steps, then the episode's end is
\* decided from the task's isFailed and the step counter.
envStep ==
    /\ ~env.done
    /\ env.resets < MaxEpisodes
    /\ \E is_failed \in BOOLEAN, reset_point \in ResetPoints(env) :
           LET sim_step_counter ==
                   IF reset_point = 0
                   THEN env.sim_step_counter + num_action_repeats
                   ELSE resetStates(env).sim_step_counter + (num_action_repeats - reset_point)
               time_out == ~is_failed /\ sim_step_counter >= max_sim_iterations
           IN  env' = [env EXCEPT !.sim_step_counter = sim_step_counter,
                                  !.is_failed = is_failed,
                                  !.time_out = time_out,
                                  !.done = is_failed \/ time_out,
                                  !.resets = IF reset_point = 0 THEN @ ELSE @ + 1,
                                  !.regenerated = IF reset_point = 0 THEN @ ELSE completely_reset,
                                  !.last = "step"]
    /\ UNCHANGED <<curriculumVars, terrainVars, managerVars>>

\* reset, called by the container for an environment that is done.
envReset ==
    /\ env.done
    /\ env' = [resetStates(env) EXCEPT !.done = FALSE,
                                       !.resets = env.resets + 1,
                                       !.regenerated = completely_reset,
                                       !.last = "reset"]
    /\ IF completely_reset
       THEN \E s0 \in seedStates(None, rng) :
                LET new == createBody(makeStandardRoughTerrain(Some(difficulty), None, s0),
                                      [shapes |-> 0, bodies |-> 0])
                    out == assignTerrain(managerSelf, objects, new)
                IN  /\ objects' = out.objects
                    /\ terrain' = out.self.terrain
                    /\ rng' = stateAfter(s0, new.samples)
                    /\ bullet' = clientAfterCreate([shapes |-> 0, bodies |-> 0])
       ELSE UNCHANGED <<objects, terrain, rng, bullet>>
    /\ UNCHANGED <<curriculumVars, query, result, building, handle>>

InitEnv ==
    /\ cfg = CfgManager
    /\ curriculumInit
    /\ \E s0 \in seedStates(None, 0) :
           /\ objects = <<createBody(makeStandardRoughTerrain(Some(0), None, s0),
                                     [shapes |-> 0, bodies |-> 0])>>
           /\ rng = stateAfter(s0, objects[1].samples)
    /\ terrain = 1
    /\ query = NoQuery
    /\ result = None
    /\ building = None
    /\ bullet = clientAfterCreate([shapes |-> 0, bodies |-> 0])
    /\ handle = NoHandle
    /\ \E gui \in BOOLEAN, single_step_rendering \in BOOLEAN :
           env = [gui |-> gui, single_step_rendering |-> single_step_rendering,
                  sim_step_counter |-> 0, is_failed |-> FALSE, time_out |-> FALSE,
                  done |-> FALSE, resets |-> 0, regenerated |-> FALSE, last |-> "init"]

NextEnv == envStep \/ envReset

SpecEnv == InitEnv /\ [][NextEnv]_vars

\* C15: the environment calls register exactly once at every episode end,
\* so that after each reset there have been as many register calls as
\* episodes; when the call has returned true the reset regenerates the
\* terrain; and the terrain changes in a reset only, never inside step.
C15_RegisterAtEpisodeEnd ==
    /\ ~env.done => counter = env.resets
    /\ (~env.done /\ env.resets > 0 /\ ret) => env.regenerated
    /\ env.regenerated => Len(objects) > 1

\* What the environment does: it never calls register and never
\* regenerates the terrain, at an episode boundary or elsewhere.
C15_NeverRegisters ==
    /\ counter = 0
    /\ ~env.regenerated
    /\ objects = <<objects[1]>>
    /\ terrain = 1

(***************************************************************************)
(* g_cfg (src/burl/utils/config.py): TaskParam.__setattr__, followed by    *)
(* the construction and use of a curriculum and of a height field under    *)
(* the configuration it has accepted.                                      *)
(*                                                                         *)
(* A Python value is a record of its type and its content; a string holds  *)
(* the value that eval gives for it.                                       *)
(***************************************************************************)
MaxConfigCalls == 1    \* register calls per run of SpecConfig

PyInt(v) == [type |-> "int", value |-> v]
PyFloat(v) == [type |-> "float", value |-> v]
PyTuple(v) == [type |-> "tuple", value |-> v]
PyStr(v) == [type |-> "str", value |-> v]

\* type(default_value): the types of the fields as __init__ sets them.
typeOf(key) ==
    CASE key \in {"trn_size", "trn_downsample", "combo_threshold", "miss_threshold"} -> "int"
      [] key \in {"trn_resolution", "difficulty_step", "max_difficulty"} -> "float"
      [] key \in {"distance_threshold"} -> "tuple"

ConfigKeys ==
    {"trn_size", "trn_downsample", "trn_resolution", "difficulty_step", "max_difficulty",
     "combo_threshold", "miss_threshold", "distance_threshold"}
\* The values given to __setattr__, as a list: 0, 2, -0.05, 0.3, (4.0, 2.0)
\* and the string "-0.05".
ConfigValues ==
    <<PyInt(0), PyInt(2), PyFloat(-5), PyFloat(30), PyTuple(<<400, 200>>), PyStr(PyFloat(-5))>>

AssertionError == [kind |-> "raise", error |-> "AssertionError"]

\* TaskParam.__setattr__ after __init__: a string given for a field that is
\* not a string is evaluated; the value is stored if it has the type of the
\* field's present value.
setattrValue(key, v) == IF typeOf(key) # "str" /\ v.type = "str" THEN v.value ELSE v
setattrAccepts(key, v) == setattrValue(key, v).type = typeOf(key)

setattr ==
    /\ counter = 0
    /\ terrain = None
    /\ \E key \in ConfigKeys, i \in 1 .. Len(ConfigValues) :
           LET v == ConfigValues[i]
           IN  /\ query' = [op |-> "setattr", key |-> key, value |-> v]
               /\ IF setattrAccepts(key, v)
                  THEN /\ cfg' = [cfg EXCEPT ![key] = setattrValue(key, v).value]
                       /\ result' = Return(None)
                  ELSE /\ UNCHANGED cfg
                       /\ result' = AssertionError
    /\ UNCHANGED <<counter, difficulty, difficulty_level, combo, miss, call, ret, hist,
                   terrain, managerVars, env>>

\* A TerrainCurriculum's register under the configuration.
configRegister ==
    /\ counter < MaxConfigCalls
    /\ \E episode_len \in ManagerEpisodeLens, distance \in ManagerDistances :
           registerCall(episode_len, distance)
    /\ UNCHANGED <<hist, terrainVars, managerVars, env>>

\* HeightFieldTerrain.__init__ of a flat 2 x 2 field with the configured
\* resolution and offset, up to its calls of the physics client.
configHeightField ==
    /\ terrain = None
    /\ terrain' = HeightFieldTerrain(peakField(2, 2, 0, 0, 0, 0), 2, 2,
                                     cfg.trn_resolution, cfg.trn_offset)
    /\ UNCHANGED <<curriculumVars, query, result, managerVars, env>>

InitConfig ==
    /\ cfg = CfgManager
    /\ curriculumInit
    /\ noTerrain
    /\ noManager
    /\ noEnv

NextConfig == setattr \/ configRegister \/ configHeightField

SpecConfig == InitConfig /\ [][NextConfig]_vars

\* The configuration the spec calls valid.
ConfigValid(c) ==
    /\ c.trn_size > 0
    /\ c.trn_downsample > 0
    /\ c.trn_resolution > 0
    /\ c.difficulty_step > 0
    /\ c.max_difficulty > 0
    /\ c.combo_threshold > 0
    /\ c.miss_threshold > 0
    /\ c.distance_threshold[1] <= c.distance_threshold[2]

\* C20: an invalid configuration is rejected when it is set and never
\* reaches a running controller or a terrain: a setattr that returns leaves
\* the configuration valid, a curriculum that has registered an episode
\* runs under a valid configuration and a constructed height field has a
\* positive resolution.
C20_InvalidConfigRejected ==
    /\ (query.op = "setattr" /\ result = Return(None)) => ConfigValid(cfg)
    /\ counter > 0 => ConfigValid(cfg)
    /\ terrain # None => terrain.x_rsl > 0

\* What __setattr__ does reject: a value whose type is not the field's.
C20_TypeChecked ==
    /\ cfg.trn_size \in Int
    /\ cfg.combo_threshold \in Int
    /\ (query.op = "setattr" /\ ~setattrAccepts(query.key, query.value)) =>
           result = AssertionError

(***************************************************************************)
(* Further properties of the curriculum.                                   *)
(***************************************************************************)
min(a, b) == IF a <= b THEN a ELSE b

\* C21: in every state reachable by register calls difficulty is
\* difficulty_level * difficulty_step clamped to max_difficulty.
C21_DifficultyIsClampedLevel ==
    difficulty = min(difficulty_level * cfg.difficulty_step, cfg.max_difficulty)

\* Without the clamp: the two counters move together, one step per level.
C21_DifficultyIsLevelTimesStep ==
    difficulty = difficulty_level * cfg.difficulty_step

(***************************************************************************)
(* Further properties of the terrain queries.                              *)
(***************************************************************************)
\* c1 * dz1 + c2 * dz2 + v1.z of the triangle selected for a point that has
\* a cell: the lower-left triangle when frac_x + frac_y < 1, the
\* upper-right one otherwise.
selectedPlane(t, x, y) ==
    IF selectsLower(t, x, y)
    THEN lowerPlane(t, cellAt(t, x, y), x, y)
    ELSE upperPlane(t, cellAt(t, x, y), x, y)

\* The point is the base vertex v1 of its selected triangle.
IsBaseVertex(t, x, y) ==
    cellDx(t, cellAt(t, x, y), x) = 0 /\ cellDy(t, cellAt(t, x, y), y) = 0

\* C22: for every point of the grid that has a cell, the selected triangle's
\* base vertex included, getHeight returns
\* c1 * dz1 + c2 * dz2 + v1.z + offset.z of the selected triangle.
C22_Interpolation ==
    (query.op = "getHeight" /\ HasCell(terrain, query.x, query.y)) =>
        result = Return(selectedPlane(terrain, query.x, query.y) + terrain.offset[3])

\* The same away from the base vertex, and at the base vertex the stored
\* elevation without offset.z.
C22_InterpolationOffBaseVertex ==
    (query.op = "getHeight" /\ HasCell(terrain, query.x, query.y)) =>
        IF IsBaseVertex(terrain, query.x, query.y)
        THEN result = Return(selectedPlane(terrain, query.x, query.y))
        ELSE result = Return(selectedPlane(terrain, query.x, query.y) + terrain.offset[3])

(***************************************************************************)
(* The coordinate-to-index conversions called on their own.                *)
(***************************************************************************)
callXCoord2Idx ==
    /\ query = NoQuery
    /\ \E x \in QueryCoords :
           /\ query' = [op |-> "xCoord2Idx", coord |-> x]
           /\ result' = Return(xCoord2Idx(terrain, x))
    /\ UNCHANGED <<terrain, curriculumVars, managerVars, env>>

callYCoord2Idx ==
    /\ query = NoQuery
    /\ \E y \in QueryCoords :
           /\ query' = [op |-> "yCoord2Idx", coord |-> y]
           /\ result' = Return(yCoord2Idx(terrain, y))
    /\ UNCHANGED <<terrain, curriculumVars, managerVars, env>>

NextIndex == callXCoord2Idx \/ callYCoord2Idx

SpecIndex == InitTerrain /\ [][NextIndex]_vars

\* floor(n / d) for d > 0.
floorOfQuotient(n, d) == n \div d

\* C23: for every coordinate, inside the grid or outside it, xCoord2Idx and
\* yCoord2Idx return floor((coord + axis_size / 2 - axis_offset) /
\* axis_resolution), each on its own axis: a coordinate less than one cell
\* below the grid's lower edge has index -1.
C23_IndexIsFloor ==
    /\ query.op = "xCoord2Idx" =>
           result = Return(floorOfQuotient(query.coord + (terrain.x_size \div 2)
                                               - terrain.offset[1], terrain.x_rsl))
    /\ query.op = "yCoord2Idx" =>
           result = Return(floorOfQuotient(query.coord + (terrain.y_size \div 2)
                                               - terrain.offset[2], terrain.y_rsl))

\* From the grid's lower edge upwards the index is the floor.
C23_IndexIsFloorFromLowerEdge ==
    /\ (query.op = "xCoord2Idx" /\ query.coord >= xIdx2Coord(terrain, 0)) =>
           result = Return(floorOfQuotient(query.coord + (terrain.x_size \div 2)
                                               - terrain.offset[1], terrain.x_rsl))
    /\ (query.op = "yCoord2Idx" /\ query.coord >= yIdx2Coord(terrain, 0)) =>
           result = Return(floorOfQuotient(query.coord + (terrain.y_size \div 2)
                                               - terrain.offset[2], terrain.y_rsl))

(***************************************************************************)
(* Streaks and level changes over consecutive register calls.              *)
(***************************************************************************)
IsTimeout(c) == c.episode_len = max_sim_iterations

\* C24: a streak is not reset when it triggers a level change.  When miss
\* has reached miss_threshold, a further episode that is not a timeout
\* lengthens the streak and lowers the level by one again, down to 0; when
\* combo has reached combo_threshold, a further timeout with
\* distance > upper lengthens the streak and raises the level by one again,
\* up to the maximum; each of these calls returns True.
C24_StreakKeepsTriggering ==
    [][IsRegisterStep =>
          /\ (miss >= cfg.miss_threshold /\ ~IsTimeout(call')) =>
                 /\ miss' = miss + 1
                 /\ difficulty_level' = (IF difficulty_level > 0 THEN difficulty_level - 1 ELSE 0)
                 /\ ret' = TRUE
          /\ (combo >= cfg.combo_threshold /\ IsTimeout(call')
                  /\ call'.distance > upperThreshold) =>
                 /\ combo' = combo + 1
                 /\ difficulty_level' =
                        (IF difficulty_level * cfg.difficulty_step < cfg.max_difficulty
                         THEN difficulty_level + 1 ELSE difficulty_level)
                 /\ ret' = TRUE]_vars

\* A miss streak one past its threshold has lowered the level twice in a
\* row, from a level that a combo streak past its threshold had raised
\* three times in a row.
C24_Witness ==
    /\ cfg = CfgE2E
    /\ miss = cfg.miss_threshold + 1
    /\ difficulty_level = 1
    /\ ret = TRUE

\* C25: difficulty_level rises in a register call only if the episode ended
\* by timeout, combo after the update is >= combo_threshold and
\* distance > upper.
C25_RaiseOnlyOnProgress ==
    [][(IsRegisterStep /\ difficulty_level' > difficulty_level) =>
          /\ IsTimeout(call')
          /\ combo' >= cfg.combo_threshold
          /\ call'.distance > upperThreshold]_vars

\* The first raise of a run: the combo streak has just reached its
\* threshold with a distance above upper.
C25_Witness ==
    /\ IsTimeout(call)
    /\ call.distance > upperThreshold
    /\ combo = cfg.combo_threshold
    /\ counter = combo
    /\ difficulty_level = 1

\* C26: at most one of combo and miss is not zero, after the first call
\* exactly one of them is not zero, and the miss branch and the combo branch
\* of register are never both enabled.
C26_OneStreakAtATime ==
    /\ combo = 0 \/ miss = 0
    /\ counter > 0 => (combo > 0 \/ miss > 0)
    /\ ~(combo >= cfg.combo_threshold /\ miss >= cfg.miss_threshold)

\* A miss streak at its threshold right after a combo streak at its own.
C26_Witness ==
    /\ counter = cfg.combo_threshold + cfg.miss_threshold
    /\ miss = cfg.miss_threshold
    /\ combo = 0
    /\ ~IsTimeout(call)

(***************************************************************************)
(* The curriculum with difficulty as the IEEE 754 double the program       *)
(* holds.  difficulty, difficulty_step and max_difficulty are Python       *)
(* floats; every value they take here is a multiple of 2^-59 below 1/2 in  *)
(* magnitude, written as the integer n = hi * 2^29 + lo of that multiple   *)
(* with 0 <= lo < 2^29 (hi is negative for a negative value).  += and -=   *)
(* give the exact result rounded to 53 significant bits, ties to even.     *)
(***************************************************************************)
LimbBase == 2 ^ 29
MantissaLimit == 2 ^ 24      \* hi below it: hi * 2^29 + lo has at most 53 bits

Double(hi, lo) == [hi |-> hi, lo |-> lo]

DoubleZero == Double(0, 0)

exactSum(a, b) ==
    Double(a.hi + b.hi + ((a.lo + b.lo) \div LimbBase), (a.lo + b.lo) % LimbBase)

negate(a) ==
    IF a.lo = 0 THEN Double(-a.hi, 0) ELSE Double(-a.hi - 1, LimbBase - a.lo)

\* The bits of a non-negative value beyond the 53 a double keeps.
excessBits(a) ==
    CHOOSE k \in 0 .. 5 :
        /\ a.hi < MantissaLimit * (2 ^ k)
        /\ k > 0 => a.hi >= MantissaLimit * (2 ^ (k - 1))

roundMagnitude(a) ==
    LET k == excessBits(a)
        q == a.lo \div (2 ^ k)
        r == a.lo % (2 ^ k)
        up == k > 0 /\ (2 * r > 2 ^ k \/ (2 * r = 2 ^ k /\ q % 2 = 1))
        lo == (IF up THEN q + 1 ELSE q) * (2 ^ k)
    IN  IF lo = LimbBase THEN Double(a.hi + 1, 0) ELSE Double(a.hi, lo)

roundToDouble(a) ==
    IF a.hi < 0 THEN negate(roundMagnitude(negate(a))) ELSE roundMagnitude(a)

doubleAdd(a, b) == roundToDouble(exactSum(a, b))

doubleSub(a, b) == roundToDouble(exactSum(a, negate(b)))

doubleLess(a, b) == a.hi < b.hi \/ (a.hi = b.hi /\ a.lo < b.lo)

\* The doubles nearest to 0.01, 0.2 and 0.3.
Double_0_01 == Double(10737418, 128849019)
Double_0_2 == Double(214748364, 429496736)
Double_0_3 == Double(322122547, 107374176)

MaxDoubleCalls == 14   \* register calls per run of SpecDouble

\* The default TerrainCurriculumParam, and a step of 0.2 under thresholds
\* of 1.
CfgDefault ==
    [combo_threshold |-> 5, miss_threshold |-> 3, difficulty_step |-> Double_0_01,
     max_difficulty |-> Double_0_3, distance_threshold |-> <<250, 500>>]

DoubleConfigs ==
    {CfgDefault,
     [combo_threshold |-> 1, miss_threshold |-> 1, difficulty_step |-> Double_0_2,
      max_difficulty |-> Double_0_3, distance_threshold |-> <<250, 500>>]}

DoubleEpisodeLens == {1, max_sim_iterations}
DoubleDistances == {100, 600}

decreaseLevelDouble(s) ==
    IF s.difficulty_level > 0
    THEN Level(doubleSub(s.difficulty, cfg.difficulty_step), s.difficulty_level - 1)
    ELSE s

increaseLevelDouble(s) ==
    IF doubleLess(s.difficulty, cfg.max_difficulty)
    THEN Level(doubleAdd(s.difficulty, cfg.difficulty_step), s.difficulty_level + 1)
    ELSE s

registerLevelDouble(s, streaks, distance) ==
    IF streaks.combo < cfg.combo_threshold /\ streaks.miss < cfg.miss_threshold
    THEN [level |-> s, ret |-> FALSE]
    ELSE IF streaks.miss >= cfg.miss_threshold
    THEN [level |-> decreaseLevelDouble(s), ret |-> TRUE]
    ELSE IF streaks.combo >= cfg.combo_threshold
    THEN LET lower == cfg.distance_threshold[1]
             upper == cfg.distance_threshold[2]
         IN  IF distance > upper THEN [level |-> increaseLevelDouble(s), ret |-> TRUE]
             ELSE IF distance < lower THEN [level |-> decreaseLevelDouble(s), ret |-> TRUE]
             ELSE [level |-> s, ret |-> TRUE]
    ELSE [level |-> s, ret |-> TRUE]

\* register(episode_len, distance); hist keeps the level before each call of
\* the run of non-timeout episodes in progress.
registerDouble ==
    /\ counter < MaxDoubleCalls
    /\ \E episode_len \in DoubleEpisodeLens, distance \in DoubleDistances :
           LET streaks == updateStreaks(combo, miss, episode_len)
               out == registerLevelDouble(Level(difficulty, difficulty_level),
                                          streaks, distance)
           IN  /\ counter' = counter + 1
               /\ combo' = streaks.combo
               /\ miss' = streaks.miss
               /\ difficulty' = out.level.difficulty
               /\ difficulty_level' = out.level.difficulty_level
               /\ ret' = out.ret
               /\ call' = [episode_len |-> episode_len, distance |-> distance]
               /\ hist' = IF episode_len = max_sim_iterations
                          THEN <<>>
                          ELSE Append(hist, difficulty_level)
    /\ UNCHANGED cfg
    /\ UNCHANGED terrainVars
    /\ UNCHANGED <<managerVars, env>>

InitDouble ==
    /\ cfg \in DoubleConfigs
    /\ counter = 0
    /\ difficulty = DoubleZero
    /\ difficulty_level = 0
    /\ combo = 0
    /\ miss = 0
    /\ call = NoCall
    /\ ret = FALSE
    /\ hist = <<>>
    /\ noTerrain
    /\ noManager
    /\ noEnv

NextDouble == registerDouble

SpecDouble == InitDouble /\ [][NextDouble]_vars

\* The run of non-timeout episodes in progress is long enough for the level
\* it started at: miss_threshold + L calls or more.
RunLongEnough ==
    /\ hist # <<>>
    /\ Len(hist) >= cfg.miss_threshold + hist[1]

\* C27: from a state with level L, once a run of non-timeout episodes has
\* lasted miss_threshold + L register calls, the level is 0 and difficulty
\* is 0, and they stay so while the run continues.
C27_MissesReachZero ==
    RunLongEnough => (difficulty_level = 0 /\ difficulty = DoubleZero)

\* What holds of such a run: the level is 0.
C27_MissesReachLevelZero ==
    RunLongEnough => difficulty_level = 0

(***************************************************************************)
(* Grid vertices: coordinates of an index pair and back.                   *)
(***************************************************************************)
\* The query point is the vertex (ix, iy) of the grid.
AtVertex(t, x, y, ix, iy) == x = xIdx2Coord(t, ix) /\ y = yIdx2Coord(t, iy)

VertexRoundTrip(t, x, y, ix, iy) ==
    /\ result = Return(elevationAt(t, iy, ix))
    /\ xCoord2Idx(t, x) = ix
    /\ yCoord2Idx(t, y) = iy

\* C28: at every grid vertex (ix, iy), those of the last row and the last
\* column included, getHeight returns the stored elevation
\* height_field[iy, ix], and the coordinates of the vertex convert back to
\* ix and iy.
C28_VertexRoundTrip ==
    query.op = "getHeight" =>
        \A iy \in 0 .. (terrain.y_dim - 1), ix \in 0 .. (terrain.x_dim - 1) :
            AtVertex(terrain, query.x, query.y, ix, iy) =>
                VertexRoundTrip(terrain, query.x, query.y, ix, iy)

\* What holds: the same at the vertices that are not in the last row or the
\* last column, and the index round trip at every vertex.
C28_InnerVertexRoundTrip ==
    query.op = "getHeight" =>
        \A iy \in 0 .. (terrain.y_dim - 1), ix \in 0 .. (terrain.x_dim - 1) :
            AtVertex(terrain, query.x, query.y, ix, iy) =>
                /\ xCoord2Idx(terrain, query.x) = ix
                /\ yCoord2Idx(terrain, query.y) = iy
                /\ (iy < terrain.y_dim - 1 /\ ix < terrain.x_dim - 1) =>
                       result = Return(elevationAt(terrain, iy, ix))

(***************************************************************************)
(* The step counter of QuadrupedEnv and what a step reports.               *)
(***************************************************************************)
IsEnvStep == env'.last = "step"

IsEnvReset == env'.last = "reset"

\* What a step reports, against the counter it leaves.
StepReport(e) ==
    /\ e.time_out => (~e.is_failed /\ e.sim_step_counter >= max_sim_iterations)
    /\ e.done = (e.is_failed \/ e.time_out)
    /\ e.sim_step_counter >= max_sim_iterations => e.done
    /\ ~(e.is_failed /\ e.time_out)

\* C29: each step advances the simulation step counter by exactly
\* num_action_repeats and reset sets it back to 0; a step reports time_out
\* only if the task has not failed and the counter has reached
\* max_sim_iterations, reports done = failed or time_out, reports done
\* whenever the counter is >= max_sim_iterations, and never reports failure
\* and timeout together.
C29_StepCounter ==
    [][/\ IsEnvStep =>
              /\ env'.sim_step_counter = env.sim_step_counter + num_action_repeats
              /\ StepReport(env')
       /\ IsEnvReset => env'.sim_step_counter = 0]_vars

\* What holds: the same with the counter's advance asserted only of a step
\* during which the episode is not reset from the debug window.
C29_StepCounterWithoutReset ==
    [][/\ IsEnvStep =>
              /\ env'.resets = env.resets =>
                     env'.sim_step_counter = env.sim_step_counter + num_action_repeats
              /\ StepReport(env')
       /\ IsEnvReset => env'.sim_step_counter = 0]_vars

\* Without the GUI no step resets the episode.
C29_HeadlessStepKeepsEpisode ==
    [][(IsEnvStep /\ ~env.gui) => env'.resets = env.resets]_vars

(***************************************************************************)
(* EnvContainerMultiProcess2 (src/burl/sim/multi_env.py): one worker       *)
(* process and one duplex pipe per environment.  env is the container the  *)
(* runner holds: the position of the thread in step, the two directions of *)
(* every pipe, and every worker's position in step_in_process.             *)
(***************************************************************************)
NumEnvs == 2           \* environments of the container
MaxStepCalls == 2      \* calls of step per run
ActionValues == {0, 1}

Workers == 1 .. NumEnvs

\* What env.step(action) returns in environment k at its n-th step.
StepResult(k, action, n) == [env |-> k, action |-> action, step |-> n]

\* __init__, lines 74-81: the pipes and the Process objects are created; no
\* process is started.
containerInit ==
    [pc |-> "idle", i |-> 1, calls |-> 0,
     actions |-> <<>>, results |-> <<>>, returned |-> <<>>,
     conn1 |-> [k \in Workers |-> <<>>],      \* sent on conn2, to be read on conn1
     conn2 |-> [k \in Workers |-> <<>>],      \* sent on conn1, to be read on conn2
     started |-> [k \in Workers |-> FALSE],
     wpc |-> [k \in Workers |-> "recv"],
     waction |-> [k \in Workers |-> 0],
     wobs |-> [k \in Workers |-> None],
     steps |-> [k \in Workers |-> 0]]

\* Process.start() on the worker of environment k.  No code of the
\* repository calls it; it is a step of the container's user.
startWorker(k) ==
    /\ ~env.started[k]
    /\ env' = [env EXCEPT !.started[k] = TRUE]
    /\ UNCHANGED <<curriculumVars, terrainVars, managerVars>>

\* step(actions), line 91: the call and its batch of actions.
stepCall ==
    /\ env.pc = "idle"
    /\ env.calls < MaxStepCalls
    /\ \E actions \in [Workers -> ActionValues] :
           env' = [env EXCEPT !.pc = "send", !.i = 1, !.calls = @ + 1,
                              !.actions = [k \in Workers |-> actions[k]],
                              !.results = <<>>]
    /\ UNCHANGED <<curriculumVars, terrainVars, managerVars>>

\* lines 94-96: conn.send(action) for the next pipe.
stepSend ==
    /\ env.pc = "send"
    /\ env' = [env EXCEPT !.conn1[env.i] = Append(@, env.actions[env.i]),
                          !.i = IF env.i = NumEnvs THEN 1 ELSE @ + 1,
                          !.pc = IF env.i = NumEnvs THEN "recv" ELSE @]
    /\ UNCHANGED <<curriculumVars, terrainVars, managerVars>>

\* line 97: conn.recv() on the next pipe; it blocks while nothing has been
\* sent to it.
stepRecv ==
    /\ env.pc = "recv"
    /\ env.conn2[env.i] # <<>>
    /\ env' = [env EXCEPT !.results = Append(@, Head(env.conn2[env.i])),
                          !.conn2[env.i] = Tail(@),
                          !.i = IF env.i = NumEnvs THEN 1 ELSE @ + 1,
                          !.pc = IF env.i = NumEnvs THEN "return" ELSE @]
    /\ UNCHANGED <<curriculumVars, terrainVars, managerVars>>

\* lines 99-102: the batch is returned in the order of results.
stepReturn ==
    /\ env.pc = "return"
    /\ env' = [env EXCEPT !.returned = env.results, !.pc = "idle"]
    /\ UNCHANGED <<curriculumVars, terrainVars, managerVars>>

\* step_in_process, line 85: action = conn.recv()
workerRecv(k) ==
    /\ env.started[k]
    /\ env.wpc[k] = "recv"
    /\ env.conn1[k] # <<>>
    /\ env' = [env EXCEPT !.waction[k] = Head(env.conn1[k]),
                          !.conn1[k] = Tail(@),
                          !.wpc[k] = "step"]
    /\ UNCHANGED <<curriculumVars, terrainVars, managerVars>>

\* line 86: obs = env.step(action)
workerStep(k) ==
    /\ env.started[k]
    /\ env.wpc[k] = "step"
    /\ env' = [env EXCEPT !.steps[k] = @ + 1,
                          !.wobs[k] = StepResult(k, env.waction[k], env.steps[k] + 1),
                          !.wpc[k] = "send"]
    /\ UNCHANGED <<curriculumVars, terrainVars, managerVars>>

\* line 88: conn.send(obs)
workerSend(k) ==
    /\ env.started[k]
    /\ env.wpc[k] = "send"
    /\ env' = [env EXCEPT !.conn2[k] = Append(@, env.wobs[k]),
                          !.wpc[k] = "recv"]
    /\ UNCHANGED <<curriculumVars, terrainVars, managerVars>>

stepThread == stepSend \/ stepRecv \/ stepReturn

worker(k) == workerRecv(k) \/ workerStep(k) \/ workerSend(k)

InitWorkers ==
    /\ env = containerInit
    /\ noCurriculum
    /\ noTerrain
    /\ noManager

NextWorkers ==
    \/ stepCall
    \/ stepThread
    \/ \E k \in Workers : startWorker(k)
    \/ \E k \in Workers : worker(k)

SpecWorkers == InitWorkers /\ [][NextWorkers]_vars

\* The thread in step and every started worker process keep running when
\* they can; nothing obliges the user to call step or to start a worker.
SpecWorkersFair ==
    /\ SpecWorkers
    /\ WF_vars(stepThread)
    /\ \A k \in Workers : WF_vars(worker(k))

InStep == env.pc # "idle"

AllStarted == \A k \in Workers : env.started[k]

\* C30: every call of step(actions) eventually returns.
C30_StepReturns == InStep ~> ~InStep

\* What holds: a call of step returns once every worker has been started.
C30_StepReturnsOnceStarted == (InStep /\ AllStarted) ~> ~InStep

\* What holds: no call of step returns while a worker has not been started.
C30_ReturnNeedsWorkers ==
    [][(InStep /\ ~InStep') => AllStarted]_vars

\* What holds: when step has returned, every worker has received one action
\* per call, stepped its environment once per call and sent one result per
\* call, no message is left in a pipe, and the returned batch holds at
\* position k the result of environment k for the action at position k.
C30_BatchInOrder ==
    (~InStep /\ env.calls > 0) =>
        \A k \in Workers :
            /\ env.returned[k] = StepResult(k, env.actions[k], env.calls)
            /\ env.steps[k] = env.calls
            /\ env.wpc[k] = "recv"
            /\ env.conn1[k] = <<>>
            /\ env.conn2[k] = <<>>

====
